---- MODULE Spec2Model ----
(***************************************************************************)
(* Negotiation economics and counter-offer policy of the AI negotiation    *)
(* trainer: services/negotiationService.ts (profit model, Nash solution,   *)
(* bisection, inverse solvers), services/geminiService.ts (offer reader,   *)
(* scenario analysis of getAiResponse) and App.tsx (session state and the  *)
(* handlers that drive a turn).                                            *)
(*                                                                         *)
(* JavaScript numbers are modelled as exact rationals over integers of     *)
(* arbitrary size (sequences of limbs), so that every +, -, *, / of the    *)
(* source is carried out as written and no product overflows; the rounding *)
(* of IEEE doubles is not modelled.  A value computed once and used        *)
(* several times in the source is passed as an operator argument, which    *)
(* TLC evaluates once.                                                     *)
(***************************************************************************)
EXTENDS Integers, Sequences, FiniteSets, TLC

(***************************************************************************)
(* Natural numbers of arbitrary size: little-endian sequences of limbs in  *)
(* 0..Base-1 without a most-significant zero limb; << >> is zero.          *)
(***************************************************************************)
Base == 100 * 100

RECURSIVE NatOfInt(_)
NatOfInt(n) == IF n = 0 THEN << >> ELSE <<n % Base>> \o NatOfInt(n \div Base)

RECURSIVE NatToInt(_)
NatToInt(x) == IF x = << >> THEN 0 ELSE x[1] + Base * NatToInt(Tail(x))

RECURSIVE NatTrim(_)
NatTrim(x) ==
    IF x = << >> THEN x
    ELSE IF x[Len(x)] = 0 THEN NatTrim(SubSeq(x, 1, Len(x) - 1)) ELSE x

RECURSIVE NatAddC(_, _, _, _)
NatAddC(x, y, i, carry) ==
    IF i > Len(x) /\ i > Len(y)
    THEN IF carry = 0 THEN << >> ELSE <<carry>>
    ELSE LET s == (IF i > Len(x) THEN 0 ELSE x[i])
                  + (IF i > Len(y) THEN 0 ELSE y[i]) + carry
         IN  <<s % Base>> \o NatAddC(x, y, i + 1, s \div Base)

NatAdd(x, y) == IF y = << >> THEN x ELSE IF x = << >> THEN y ELSE NatAddC(x, y, 1, 0)

\* x - y for x >= y
RECURSIVE NatSubB(_, _, _, _)
NatSubB(x, y, i, borrow) ==
    IF i > Len(x) THEN << >>
    ELSE LET s == x[i] - (IF i > Len(y) THEN 0 ELSE y[i]) - borrow
         IN  IF s < 0 THEN <<s + Base>> \o NatSubB(x, y, i + 1, 1)
                      ELSE <<s>> \o NatSubB(x, y, i + 1, 0)

NatSub(x, y) == NatTrim(NatSubB(x, y, 1, 0))

\* -1, 0, 1 as x < y, x = y, x > y
RECURSIVE NatCmpAt(_, _, _)
NatCmpAt(x, y, i) ==
    IF i = 0 THEN 0
    ELSE IF x[i] < y[i] THEN -1
    ELSE IF x[i] > y[i] THEN 1
    ELSE NatCmpAt(x, y, i - 1)

NatCmp(x, y) ==
    IF Len(x) < Len(y) THEN -1
    ELSE IF Len(x) > Len(y) THEN 1
    ELSE NatCmpAt(x, y, Len(x))

\* x * k for one limb k
RECURSIVE NatMulLimbC(_, _, _, _)
NatMulLimbC(x, k, i, carry) ==
    IF i > Len(x)
    THEN IF carry = 0 THEN << >> ELSE <<carry>>
    ELSE LET s == x[i] * k + carry
         IN  <<s % Base>> \o NatMulLimbC(x, k, i + 1, s \div Base)

NatMulLimb(x, k) == IF k = 0 THEN << >> ELSE NatMulLimbC(x, k, 1, 0)

\* x + y * Base^k
NatAddShifted(x, y, k) ==
    IF y = << >> THEN x ELSE NatAdd(x, [i \in 1..k |-> 0] \o y)

\* y times the number whose limbs are the limbs lo..hi of x
RECURSIVE NatMulAt(_, _, _, _)
NatMulAt(x, y, lo, hi) ==
    IF lo = hi THEN NatMulLimb(y, x[lo])
    ELSE NatAddShifted(NatMulAt(x, y, lo, (lo + hi) \div 2),
                       NatMulAt(x, y, (lo + hi) \div 2 + 1, hi),
                       (lo + hi) \div 2 - lo + 1)

NatMul(x, y) ==
    IF x = << >> \/ y = << >> THEN << >>
    ELSE IF Len(x) <= Len(y) THEN NatMulAt(x, y, 1, Len(x)) ELSE NatMulAt(y, x, 1, Len(y))

\* how often the prime f divides the integer j > 0
RECURSIVE IntVal(_, _)
IntVal(j, f) == IF j % f = 0 THEN 1 + IntVal(j \div f, f) ELSE 0

RECURSIVE IntPow(_, _)
IntPow(f, k) ==
    IF k = 0 THEN 1
    ELSE IF k % 2 = 0 THEN IntPow(f * f, k \div 2)
    ELSE f * IntPow(f * f, k \div 2)

(***************************************************************************)
(* Rationals [s, n, e2, e5, m]: sign s in {-1, 0, 1} and magnitude         *)
(* n / (2^e2 * 5^e5 * m) with n and m >= 1 naturals.  Fractions are not    *)
(* reduced: two records may denote the same number, and numbers are        *)
(* compared with RatCmp, never with =.  The result of a division by zero   *)
(* (Infinity or NaN in JavaScript) is NotANumber, the record with the empty*)
(* denominator m = << >>, and so is every number computed from it.         *)
(***************************************************************************)
\* x * 2^k and x * 5^k, a limb's worth of the power at a time
RECURSIVE NatMulPow2(_, _)
NatMulPow2(x, k) ==
    IF k = 0 THEN x
    ELSE IF k > 13 THEN NatMulPow2(NatMulLimb(x, 8192), k - 13)
    ELSE NatMulLimb(x, IntPow(2, k))

RECURSIVE NatMulPow5(_, _)
NatMulPow5(x, k) ==
    IF k = 0 THEN x
    ELSE IF k > 5 THEN NatMulPow5(NatMulLimb(x, 3125), k - 5)
    ELSE NatMulLimb(x, IntPow(5, k))

Max(i, j) == IF i >= j THEN i ELSE j

NotANumber == [s |-> 1, n |-> <<1>>, e2 |-> 0, e5 |-> 0, m |-> << >>]

RatIsNumber(x) == x.m # << >>

RatMk(s, n, e2, e5, m) ==
    IF m = << >> THEN NotANumber
    ELSE IF n = << >> \/ s = 0 THEN [s |-> 0, n |-> << >>, e2 |-> 0, e5 |-> 0, m |-> <<1>>]
    ELSE [s |-> s, n |-> n, e2 |-> e2, e5 |-> e5, m |-> m]

\* the number i/j for integers i and j > 0
Rat(i, j) ==
    LET v2 == IntVal(j, 2)
        v5 == IntVal(j, 5)
    IN  RatMk(IF i < 0 THEN -1 ELSE 1, NatOfInt(IF i < 0 THEN -i ELSE i),
              v2, v5, NatOfInt(j \div (IntPow(2, v2) * IntPow(5, v5))))

RatOfInt(i) == Rat(i, 1)

\* the denominator 2^e2 * 5^e5 * m
RatDen(x) == NatMulPow2(NatMulPow5(x.m, x.e5), x.e2)

RatNeg(x) == [x EXCEPT !.s = -x.s]

RatAbs(x) == [x EXCEPT !.s = IF x.s = 0 THEN 0 ELSE 1]

RatSign(x) == x.s

\* the numerator of x once x is written over the common denominator of x and y
RatNumOver(x, y) ==
    NatMulPow2(NatMulPow5(IF x.m = y.m THEN x.n ELSE NatMul(x.n, y.m),
                          Max(x.e5, y.e5) - x.e5),
               Max(x.e2, y.e2) - x.e2)

\* -1, 0, 1 as x < y, x = y, x > y
RatCmp(x, y) ==
    IF x.s < y.s THEN -1
    ELSE IF x.s > y.s THEN 1
    ELSE IF x.s = 0 THEN 0
    ELSE x.s * NatCmp(RatNumOver(x, y), RatNumOver(y, x))

RatLt(x, y) == RatCmp(x, y) < 0
RatLe(x, y) == RatCmp(x, y) <= 0
RatGt(x, y) == RatCmp(x, y) > 0
RatGe(x, y) == RatCmp(x, y) >= 0
RatEq(x, y) == RatCmp(x, y) = 0

\* x + y for x, y # 0 with numerators xn, yn over the common denominator 2^e2 * 5^e5 * m
RatAddOver(x, y, xn, yn, e2, e5, m) ==
    IF x.s = y.s THEN RatMk(x.s, NatAdd(xn, yn), e2, e5, m)
    ELSE IF NatCmp(xn, yn) = 0 THEN RatMk(0, << >>, 0, 0, <<1>>)
    ELSE IF NatCmp(xn, yn) > 0 THEN RatMk(x.s, NatSub(xn, yn), e2, e5, m)
    ELSE RatMk(y.s, NatSub(yn, xn), e2, e5, m)

RatAdd(x, y) ==
    IF x.s = 0 THEN y
    ELSE IF y.s = 0 THEN x
    ELSE RatAddOver(x, y, RatNumOver(x, y), RatNumOver(y, x),
                    Max(x.e2, y.e2), Max(x.e5, y.e5),
                    IF x.m = y.m THEN x.m ELSE NatMul(x.m, y.m))

RatSub(x, y) == RatAdd(x, RatNeg(y))

RatMul(x, y) ==
    IF x.m = << >> \/ y.m = << >> THEN NotANumber
    ELSE IF x.s = 0 \/ y.s = 0 THEN RatMk(0, << >>, 0, 0, <<1>>)
    ELSE RatMk(x.s * y.s, NatMul(x.n, y.n), x.e2 + y.e2, x.e5 + y.e5, NatMul(x.m, y.m))

\* 1 / y
RatInv(y) ==
    LET small == Len(y.n) = 1
        v2 == IF small THEN IntVal(y.n[1], 2) ELSE 0
        v5 == IF small THEN IntVal(y.n[1], 5) ELSE 0
        m  == IF small THEN NatOfInt(y.n[1] \div (IntPow(2, v2) * IntPow(5, v5))) ELSE y.n
    IN  IF y.s = 0 THEN NotANumber ELSE RatMk(y.s, RatDen(y), v2, v5, m)

\* x / y
RatDiv(x, y) == RatMul(x, RatInv(y))

\* largest integer k in lo..hi-1 with k*d <= n, given lo*d <= n < hi*d
RECURSIVE NatQuotIn(_, _, _, _)
NatQuotIn(n, d, lo, hi) ==
    IF hi - lo <= 1 THEN lo
    ELSE LET mid == (lo + hi) \div 2
         IN  IF NatCmp(NatMul(NatOfInt(mid), d), n) <= 0
             THEN NatQuotIn(n, d, mid, hi)
             ELSE NatQuotIn(n, d, lo, mid)

RECURSIVE NatQuotUp(_, _, _)
NatQuotUp(n, d, hi) ==
    IF NatCmp(NatMul(NatOfInt(hi), d), n) > 0 THEN hi ELSE NatQuotUp(n, d, 2 * hi)

\* floor(n/d) for a quotient that fits an integer
NatQuot(n, d) == NatQuotIn(n, d, 0, NatQuotUp(n, d, 1))

\* floor of x given its denominator d and k = floor(|x|)
RatFloorOver(x, d, k) ==
    IF x.s >= 0 THEN k
    ELSE IF NatCmp(NatMul(NatOfInt(k), d), x.n) = 0 THEN -k ELSE -k - 1

\* Math.floor
RatFloor(x) == RatFloorOver(x, RatDen(x), NatQuot(x.n, RatDen(x)))

\* Math.round: the nearest integer, a tie rounded towards +Infinity
MathRound(x) == RatFloor(RatAdd(x, Rat(1, 2)))

Zero == RatOfInt(0)
Two == RatOfInt(2)

(***************************************************************************)
(* number | null                                                           *)
(***************************************************************************)
None == << >>
Some(v) == <<v>>

(***************************************************************************)
(* services/negotiationService.ts                                          *)
(***************************************************************************)
\* expectedMinQuantityDemand without the test q >= demand_max
expectedMinQuantityDemand_NoUpperGuard(q, params) ==
    LET demand_min == RatOfInt(params.demand_min)
        demand_max == RatOfInt(params.demand_max)
        demand_range == RatSub(demand_max, demand_min)
    IN  IF RatLe(q, demand_min) THEN q
        ELSE RatDiv(RatAdd(RatDiv(RatSub(RatMul(q, q), RatMul(demand_min, demand_min)), Two),
                           RatMul(q, RatSub(demand_max, q))),
                    demand_range)

\* E[min(q, D)] for D ~ Uniform[demand_min, demand_max]
expectedMinQuantityDemand(q, params) ==
    LET demand_min == RatOfInt(params.demand_min)
        demand_max == RatOfInt(params.demand_max)
        demand_range == RatSub(demand_max, demand_min)
    IN  IF RatLe(q, demand_min) THEN q
        ELSE IF RatGe(q, demand_max) THEN RatDiv(RatAdd(demand_min, demand_max), Two)
        ELSE RatDiv(RatAdd(\* integral_part1
                           RatDiv(RatSub(RatMul(q, q), RatMul(demand_min, demand_min)), Two),
                           \* integral_part2
                           RatMul(q, RatSub(demand_max, q))),
                    demand_range)

\* ProfitCalcs with the total rounded to an integer
ProfitCalcs_RoundedTotal(supplier_profit, retailer_profit) ==
    [supplier_profit |-> supplier_profit,
     retailer_profit |-> retailer_profit,
     total_profit |-> RatOfInt(MathRound(RatAdd(supplier_profit, retailer_profit)))]

\* the record calculateProfits returns
ProfitCalcs(supplier_profit, retailer_profit) ==
    [supplier_profit |-> supplier_profit,
     retailer_profit |-> retailer_profit,
     total_profit |-> RatAdd(supplier_profit, retailer_profit)]

\* profitsOfSales with the retailer selling the whole order q
profitsOfSales_ByQuantity(w, q, params, expected_sales) ==
    ProfitCalcs(RatSub(RatMul(w, expected_sales), RatMul(RatOfInt(params.c), q)),
                RatMul(RatSub(RatOfInt(params.p), w), q))

\* the profits of (w, q) given expected_sales = expectedMinQuantityDemand(q, params)
profitsOfSales(w, q, params, expected_sales) ==
    ProfitCalcs(RatSub(RatMul(w, expected_sales), RatMul(RatOfInt(params.c), q)),
                RatMul(RatSub(RatOfInt(params.p), w), expected_sales))

calculateProfits(w, q, params) ==
    profitsOfSales(w, q, params, expectedMinQuantityDemand(q, params))

\* the record nashBargainingSolution returns
NashSolution(q_star, w_star, profits) ==
    [order_quantity |-> q_star,
     wholesale_price |-> w_star,
     retailer_profit |-> profits.retailer_profit,
     supplier_profit |-> profits.supplier_profit,
     total_profit |-> profits.total_profit]

\* the Nash solution given q_star and w_star
nashAt(q_star, w_star, params) ==
    NashSolution(q_star, w_star, calculateProfits(w_star, RatOfInt(q_star), params))

\* w_star with the sum p + c not doubled
nash_w_star_Undoubled(p, c) == Rat(p * (p + 3 * c), p + c)

\* w_star = p * (p + 3*c) / (2 * (p + c))
nash_w_star(p, c) == Rat(p * (p + 3 * c), 2 * (p + c))

\* nashBargainingSolution with Math.floor in place of Math.round
nashBargainingSolution_Floor(params) ==
    LET p == params.p
        c == params.c
        demand_range == params.demand_max - params.demand_min
        q_star_float == Rat(demand_range * (p - c), p)
    IN  nashAt(RatFloor(q_star_float), nash_w_star(p, c), params)

nashBargainingSolution(params) ==
    LET p == params.p
        c == params.c
        demand_range == params.demand_max - params.demand_min
        q_star_float == Rat(demand_range * (p - c), p)
    IN  nashAt(MathRound(q_star_float), nash_w_star(p, c), params)

DefaultTol == Rat(1, 100000)
DefaultMaxIter == 100

\* The functions passed to bisection are closures: the name of the function
\* and the variables it captures.  profitDifference is the closure of
\* findQForTargetRetailerProfit.
profitDifference(w, targetProfit, params) ==
    [name |-> "profitDifference", w |-> w, targetProfit |-> targetProfit, params |-> params]

\* func(x, context)
apply(func, x, context) ==
    CASE func.name = "profitDifference" ->
             RatSub(calculateProfits(func.w, x, func.params).retailer_profit, func.targetProfit)

\* bisection(func, context, a, b, tol, max_iter): a root of func in [a, b], or null.
\* v holds the variables a, b, f_a, c, f_c of the function and whether it has
\* returned c.

\* bisectionRejects that lets a zero at an endpoint pass
bisectionRejects_Strict(f_a, f_b) == RatGt(RatMul(f_a, f_b), Zero)

\* the test before the loop: no root in the interval, or several
bisectionRejects(f_a, f_b) == RatGe(RatMul(f_a, f_b), Zero)

\* the variables when the loop is entered: let f_a = func(a, context); let c = a
bisectionEnter(func, context, a0, b0) ==
    [a |-> a0, b |-> b0, f_a |-> apply(func, a0, context),
     c |-> a0, f_c |-> Zero, returned |-> FALSE]

\* c = b, the upper end of the bracket
bisectionAssignC_UpperEnd(v) == [v EXCEPT !.c = v.b]

\* c = (a + b) / 2
bisectionAssignC(v) == [v EXCEPT !.c = RatDiv(RatAdd(v.a, v.b), Two)]

\* let f_c = func(c, context)
bisectionAssignFc(func, context, v) == [v EXCEPT !.f_c = apply(func, v.c, context)]

\* bisectionConverged that stops on a bracket twice as wide
bisectionConverged_Wide(v, tol) ==
    RatLt(RatAbs(v.f_c), tol) \/ RatLt(RatDiv(RatSub(v.b, v.a), Two), RatMul(Two, tol))

\* the stopping test of the loop
bisectionConverged(v, tol) ==
    RatLt(RatAbs(v.f_c), tol) \/ RatLt(RatDiv(RatSub(v.b, v.a), Two), tol)

\* the two if statements of the loop body
bisectionTest(v, tol) ==
    IF bisectionConverged(v, tol)
    THEN [v EXCEPT !.returned = TRUE]
    ELSE IF RatLt(RatMul(v.f_a, v.f_c), Zero)
         THEN [v EXCEPT !.b = v.c]
         ELSE [v EXCEPT !.a = v.c, !.f_a = v.f_c]

\* the body of the for statement
bisectionPass(func, context, tol, v) ==
    bisectionTest(bisectionAssignFc(func, context, bisectionAssignC(v)), tol)

\* n consecutive passes of the for statement, or fewer when one returns (the
\* passes are split in two halves so that their evaluation does not nest n deep)
RECURSIVE bisectionPasses(_, _, _, _, _)
bisectionPasses(func, context, tol, v, n) ==
    IF v.returned \/ n = 0 THEN v
    ELSE IF n = 1 THEN bisectionPass(func, context, tol, v)
    ELSE bisectionPasses(func, context, tol,
                         bisectionPasses(func, context, tol, v, n \div 2), n - n \div 2)

bisection(func, context, a0, b0, tol, max_iter) ==
    IF bisectionRejects(apply(func, a0, context), apply(func, b0, context)) THEN None
    ELSE Some(bisectionPasses(func, context, tol,
                              bisectionEnter(func, context, a0, b0), max_iter).c)

\* roundOrNull with Math.floor in place of Math.round
roundOrNull_Floor(q_float) == IF q_float = None THEN None ELSE Some(RatFloor(q_float[1]))

\* Math.round of the root, or null
roundOrNull(q_float) == IF q_float = None THEN None ELSE Some(MathRound(q_float[1]))

\* the empty object passed as context
NoContext == [name |-> "{}"]

findQForTargetRetailerProfit(w, targetProfit, params) ==
    IF RatGe(w, RatOfInt(params.p))
    THEN IF RatLe(targetProfit, Zero) THEN Some(0) ELSE None
    ELSE roundOrNull(bisection(profitDifference(w, targetProfit, params), NoContext,
                               Rat(1, 1000000), RatOfInt(params.demand_max * 2),
                               DefaultTol, DefaultMaxIter))

\* the price w, or null when w < c
notBelowCost(w, params) == IF RatLt(w, RatOfInt(params.c)) THEN None ELSE Some(w)

\* the price that yields targetProfit given expected_sales = expectedMinQuantityDemand(q, params)
priceForSales(targetProfit, params, expected_sales) ==
    IF RatLe(expected_sales, Zero) THEN None
    ELSE notBelowCost(RatSub(RatOfInt(params.p), RatDiv(targetProfit, expected_sales)), params)

\* findWForTargetRetailerProfit without the test of the price against the cost c
findW_NoCostFloor(q, targetProfit, params) ==
    IF RatGt(targetProfit, Zero) /\ RatLe(q, Zero) THEN None
    ELSE IF RatLe(targetProfit, Zero) /\ RatLe(q, Zero) THEN Some(RatOfInt(params.p))
    ELSE LET expected_sales == expectedMinQuantityDemand(q, params)
         IN  IF RatLe(expected_sales, Zero) THEN None
             ELSE Some(RatSub(RatOfInt(params.p), RatDiv(targetProfit, expected_sales)))

findWForTargetRetailerProfit(q, targetProfit, params) ==
    IF RatGt(targetProfit, Zero) /\ RatLe(q, Zero) THEN None
    ELSE IF RatLe(targetProfit, Zero) /\ RatLe(q, Zero) THEN Some(RatOfInt(params.p))
    ELSE priceForSales(targetProfit, params, expectedMinQuantityDemand(q, params))

(***************************************************************************)
(* Number.prototype.toFixed: the decimal with the given number of          *)
(* fraction digits nearest to v, a tie rounded away from zero; the result  *)
(* is kept as a number.                                                    *)
(***************************************************************************)
toFixed(v, digits) ==
    Rat(RatSign(v) * RatFloor(RatAdd(RatMul(RatAbs(v), RatOfInt(IntPow(10, digits))), Rat(1, 2))),
        IntPow(10, digits))

(***************************************************************************)
(* constants.ts and App.tsx: the parameters of a session                   *)
(***************************************************************************)
INITIAL_PARAMS == [c |-> 3, p |-> 10, demand_min |-> 0, demand_max |-> 100]

C_VALUES == {3, 4, 5}
P_VALUES == {10, 11, 12}

\* every value generateNewParams can return
generateNewParams ==
    {[INITIAL_PARAMS EXCEPT !.c = randomC, !.p = randomP] : randomC \in C_VALUES, randomP \in P_VALUES}

(***************************************************************************)
(* services/geminiService.ts: the scenario analysis of getAiResponse.      *)
(* A partial offer is [w |-> number | undefined, q |-> number | undefined];*)
(* the analysis is the mandated action with the numbers it is built from   *)
(* (offer, newW, newQ, the Nash offer) and, under "shown", the same        *)
(* numbers as the prompt prints them.                                      *)
(***************************************************************************)
NoAnalysis == [scenario |-> 0, tag |-> "NoAnalysis"]

\* "offers are invalid if w or q are zero or less"
\* hasValidW that only tests that w is present
hasValidW_Present(w) == w # None

hasValidW(w) == w # None /\ RatGt(w[1], Zero)
hasValidQ(q) == q # None /\ q[1] > 0

\* isFavorable with > in place of >=
isFavorable_Strict(profits, nash) == RatGt(profits.retailer_profit, nash.retailer_profit)

isFavorable(profits, nash) == RatGe(profits.retailer_profit, nash.retailer_profit)

\* the re-proposed "initial optimal offer"
rejectAndReinitiate(scenario, nash) ==
    [scenario |-> scenario, tag |-> "RejectAndReinitiate",
     w |-> nash.wholesale_price, q |-> nash.order_quantity,
     shown |-> [w |-> toFixed(nash.wholesale_price, 2),
                q |-> toFixed(RatOfInt(nash.order_quantity), 0)]]

\* the user's offer repeated back for confirmation
accept(scenario, offer) ==
    [scenario |-> scenario, tag |-> "Accept", w |-> offer.w, q |-> offer.q,
     shown |-> [w |-> toFixed(offer.w, 2), q |-> toFixed(RatOfInt(offer.q), 0)]]

\* the user's quantity q kept with the adjusted price newW, or the rejection when newW is null
counterPrice(scenario, q, newW, nash) ==
    IF newW # None
    THEN [scenario |-> scenario, tag |-> "CounterPrice", w |-> newW[1], q |-> q,
          shown |-> [w |-> toFixed(newW[1], 2), q |-> RatOfInt(q)]]
    ELSE rejectAndReinitiate(scenario, nash)

\* scenario1 that counters with the Nash price instead of newW
scenario1_CounterNashPrice(offer, params, nash) ==
    IF isFavorable(calculateProfits(offer.w, RatOfInt(offer.q), params), nash)
    THEN [scenario |-> 1, tag |-> "Accept", w |-> offer.w, q |-> offer.q,
          shown |-> [w |-> toFixed(offer.w, 2), q |-> toFixed(RatOfInt(offer.q), 0)]]
    ELSE IF findWForTargetRetailerProfit(RatOfInt(offer.q), nash.retailer_profit, params) # None
    THEN [scenario |-> 1, tag |-> "CounterPrice", w |-> nash.wholesale_price, q |-> offer.q,
          shown |-> [w |-> toFixed(nash.wholesale_price, 2), q |-> RatOfInt(offer.q)]]
    ELSE rejectAndReinitiate(1, nash)

\* SCENARIO 1: Full Offer (w and q)
scenario1(offer, params, nash) ==
    LET targetRetailerProfit == nash.retailer_profit
    IN  IF isFavorable(calculateProfits(offer.w, RatOfInt(offer.q), params), nash)
        THEN accept(1, offer)
        ELSE counterPrice(1, offer.q,
                          findWForTargetRetailerProfit(RatOfInt(offer.q), targetRetailerProfit, params),
                          nash)

\* the user's price w kept with the calculated quantity newQ, or the rejection when newQ is null
counterQuantity(scenario, w, newQ, nash) ==
    IF newQ # None
    THEN [scenario |-> scenario, tag |-> "CounterQuantity", w |-> w, q |-> newQ[1],
          shown |-> [w |-> w, q |-> toFixed(RatOfInt(newQ[1]), 0)]]
    ELSE rejectAndReinitiate(scenario, nash)

\* scenario2 that counters with the Nash quantity instead of newQ
scenario2_CounterNashQuantity(w, params, nash) ==
    LET targetRetailerProfit == nash.retailer_profit
        newQ == findQForTargetRetailerProfit(w, targetRetailerProfit, params)
    IN  IF newQ # None
        THEN [scenario |-> 2, tag |-> "CounterQuantity", w |-> w, q |-> nash.order_quantity,
              shown |-> [w |-> w, q |-> toFixed(RatOfInt(nash.order_quantity), 0)]]
        ELSE rejectAndReinitiate(2, nash)

\* SCENARIO 2: Partial Offer (w only)
scenario2(w, params, nash) ==
    LET targetRetailerProfit == nash.retailer_profit
    IN  counterQuantity(2, w, findQForTargetRetailerProfit(w, targetRetailerProfit, params), nash)

\* SCENARIO 3: Partial Offer (q only)
scenario3(q, params, nash) ==
    LET targetRetailerProfit == nash.retailer_profit
    IN  counterPrice(3, q, findWForTargetRetailerProfit(RatOfInt(q), targetRetailerProfit, params),
                     nash)

\* scenario4 with the min-quantity anchor at w = c instead of c + 0.01
scenario4_AnchorAtCost(params, nash) ==
    LET targetRetailerProfit == nash.retailer_profit
        q_for_max_price == params.demand_max
        w_for_max_price == findWForTargetRetailerProfit(RatOfInt(q_for_max_price),
                                                        targetRetailerProfit, params)
        w_for_min_q == RatOfInt(params.c)
        q_for_min_w == findQForTargetRetailerProfit(w_for_min_q, targetRetailerProfit, params)
    IN  [scenario |-> 4, tag |-> "ConditionalOffer",
         w |-> nash.wholesale_price, q |-> nash.order_quantity,
         shown |-> [w |-> toFixed(nash.wholesale_price, 2),
                    q |-> toFixed(RatOfInt(nash.order_quantity), 0)],
         maxPrice |-> [w |-> w_for_max_price, q |-> q_for_max_price],
         minQuantity |-> [w |-> w_for_min_q, q |-> q_for_min_w]]

\* SCENARIO 4: No offer
scenario4(params, nash) ==
    LET targetRetailerProfit == nash.retailer_profit
        q_for_max_price == params.demand_max
        w_for_min_q == RatAdd(RatOfInt(params.c), Rat(1, 100))
    IN  [scenario |-> 4, tag |-> "ConditionalOffer",
         w |-> nash.wholesale_price, q |-> nash.order_quantity,
         shown |-> [w |-> toFixed(nash.wholesale_price, 2),
                    q |-> toFixed(RatOfInt(nash.order_quantity), 0)],
         maxPrice |-> [\* w_for_max_price
                       w |-> findWForTargetRetailerProfit(RatOfInt(q_for_max_price),
                                                        targetRetailerProfit, params),
                       q |-> q_for_max_price],
         minQuantity |-> [w |-> w_for_min_q,
                          \* q_for_min_w
                          q |-> findQForTargetRetailerProfit(w_for_min_q,
                                                           targetRetailerProfit, params)]]

\* getAiResponse that falls back on the price of the last offer in the chat
\* history when the latest offer has no price
getAiResponse_HistoryPrice(chatHistory, params, nash, lastUserOffer) ==
    LET lastUserMessage == chatHistory[Len(chatHistory)]
        offered == {i \in 1..Len(chatHistory) : chatHistory[i].offer # None}
        last == CHOOSE i \in offered : \A j \in offered : j <= i
        w == IF lastUserOffer.w = None /\ offered # {}
             THEN Some(chatHistory[last].offer[1].w) ELSE lastUserOffer.w
        q == lastUserOffer.q
    IN  IF lastUserMessage.sender # "user" THEN NoAnalysis
        ELSE IF hasValidW(w) /\ hasValidQ(q) THEN scenario1([w |-> w[1], q |-> q[1]], params, nash)
        ELSE IF hasValidW(w) THEN scenario2(w[1], params, nash)
        ELSE IF hasValidQ(q) THEN scenario3(q[1], params, nash)
        ELSE scenario4(params, nash)

\* getAiResponse up to the request to the model: the analysis appended to the prompt
getAiResponse(chatHistory, params, nash, lastUserOffer) ==
    LET lastUserMessage == chatHistory[Len(chatHistory)]
        w == lastUserOffer.w
        q == lastUserOffer.q
    IN  IF lastUserMessage.sender # "user" THEN NoAnalysis
        ELSE IF hasValidW(w) /\ hasValidQ(q) THEN scenario1([w |-> w[1], q |-> q[1]], params, nash)
        ELSE IF hasValidW(w) THEN scenario2(w[1], params, nash)
        ELSE IF hasValidQ(q) THEN scenario3(q[1], params, nash)
        ELSE scenario4(params, nash)

(***************************************************************************)
(* Messages of the chat: [sender, offer] with offer an Offer or undefined. *)
(* The text of a message is not modelled; what the offer reader makes of   *)
(* it is an input of the call.                                             *)
(***************************************************************************)
Message(sender, offer) == [sender |-> sender, offer |-> offer]

\* the greeting every session starts with (App.tsx, handleReset and the mount effect)
firstMessage == Message("ai", None)

(***************************************************************************)
(* The values the offer reader can return: parseFloat and parseInt of the  *)
(* digit strings the regular expression of parseOfferWithLLM captures, or  *)
(* undefined.  Prices are drawn from PriceCents (in cents) and quantities  *)
(* from Quantities.                                                        *)
(***************************************************************************)
PriceCents == {0, 100, 700, 755, 900, 1300}
Quantities == {0, 10, 70, 100}

PartialOffers ==
    [w : {None} \cup {Some(Rat(cents, 100)) : cents \in PriceCents},
     q : {None} \cup {Some(k) : k \in Quantities}]

(***************************************************************************)
(* Calls of the scenario analysis on their own: polArgs are the arguments  *)
(* of the current call and the handler that made it, polResult its result  *)
(* once it has returned, and polPrev the result of the previous call with  *)
(* the same params, nash and lastUserOffer.  polCountered is the counter   *)
(* offer of the previous call when the current call submits it back.       *)
(***************************************************************************)
VARIABLES polArgs, polResult, polPrev, polCountered

(***************************************************************************)
(* Calls of the exported functions of negotiationService.ts on their own:  *)
(* svcCall is the function called, its arguments and, once it has          *)
(* returned, its result.                                                   *)
(***************************************************************************)
VARIABLES svcCall

(***************************************************************************)
(* App.tsx: the state of the App component.  messages, isLoading,          *)
(* isConcluded and negotiationParams are its useState cells and            *)
(* nashSolution is the current value of its ref; request is the call of    *)
(* processAiResponse that is waiting at an await, with the chatHistory and *)
(* the negotiationParams of the render that made it.  calls lists the      *)
(* params and nash arguments of the getAiResponse calls of the session,    *)
(* and resets counts the calls of handleReset.                             *)
(***************************************************************************)
VARIABLES messages, isLoading, isConcluded, negotiationParams, nashSolution, request, calls, resets

(***************************************************************************)
(* A call of bisection on its own: bisArgs are its arguments, bisV the     *)
(* variables a, b, f_a, c, f_c of the function once the loop is entered,   *)
(* bisI the passes of the loop made, and bisReturn what it has returned.   *)
(***************************************************************************)
VARIABLES bisArgs, bisV, bisI, bisReturn

polVars == <<polArgs, polResult, polPrev, polCountered>>
svcVars == <<svcCall>>
bisectionVars == <<bisArgs, bisV, bisI, bisReturn>>
appVars == <<messages, isLoading, isConcluded, negotiationParams, nashSolution, request, calls, resets>>
vars == <<polVars, svcVars, appVars, bisectionVars>>

\* no call of the scenario analysis on its own, no call of a service function on its own
polIdle == polArgs = None /\ polResult = None /\ polPrev = None /\ polCountered = None
svcIdle == svcCall = None

\* no call of bisection on its own
bisectionIdle == bisArgs = None /\ bisV = None /\ bisI = 0 /\ bisReturn = None

\* no App component
appIdle ==
    /\ messages = << >> /\ isLoading = FALSE /\ isConcluded = FALSE
    /\ negotiationParams = None /\ nashSolution = None
    /\ request = None /\ calls = << >> /\ resets = 0

\* handleSendOffer returns early unless the form holds a price w >= c and a quantity q > 0
handleSendOfferPasses(o, params) ==
    /\ o.w # None /\ o.q # None
    /\ ~RatLt(o.w[1], RatOfInt(params.c))
    /\ ~(o.q[1] <= 0)

\* the message a handler appends to the history it passes to processAiResponse:
\* handleSendOffer attaches the offer of the form, handleSendMessage attaches none
userMessageForHistory(handler, o) ==
    IF handler = "handleSendOffer"
    THEN Message("user", Some([w |-> o.w[1], q |-> o.q[1]]))
    ELSE Message("user", None)

\* an earlier exchange of offers
EarlierTurns ==
    <<Message("user", Some([w |-> Rat(900, 100), q |-> 70])),
      Message("ai", Some([w |-> Rat(731, 100), q |-> 70]))>>

\* chat histories a call can be made with: they end with the user's message
Histories(last) ==
    {<<firstMessage>> \o <<last>>, <<firstMessage>> \o EarlierTurns \o <<last>>}

\* processAiResponse reads the offer back from the text of the last message;
\* the text handleSendOffer writes states the numbers of the form
InitPolicy ==
    /\ \E ps \in generateNewParams, o \in PartialOffers,
          handler \in {"handleSendOffer", "handleSendMessage"} :
          /\ handler = "handleSendOffer" => handleSendOfferPasses(o, ps)
          /\ polArgs = [handler |-> handler,
                        chatHistory |-> <<firstMessage, userMessageForHistory(handler, o)>>,
                        params |-> ps,
                        nash |-> nashBargainingSolution(ps),
                        lastUserOffer |-> o]
    /\ polResult = None
    /\ polPrev = None
    /\ polCountered = None
    /\ svcIdle
    /\ appIdle
    /\ bisectionIdle

\* getAiResponse(chatHistory, params, nash, lastUserOffer) up to the request to the model
Classify ==
    /\ polResult = None
    /\ polResult' = Some(getAiResponse(polArgs.chatHistory, polArgs.params,
                                     polArgs.nash, polArgs.lastUserOffer))
    /\ UNCHANGED <<polArgs, polPrev, polCountered, svcVars, appVars, bisectionVars>>

\* the same params, nash and lastUserOffer are passed again, after another chat history
Replay ==
    /\ polResult # None
    /\ polPrev = None
    /\ \E h \in Histories(polArgs.chatHistory[Len(polArgs.chatHistory)])
                   \ {polArgs.chatHistory} :
          polArgs' = [polArgs EXCEPT !.chatHistory = h]
    /\ polPrev' = polResult
    /\ polResult' = None
    /\ UNCHANGED <<polCountered, svcVars, appVars, bisectionVars>>

\* the offer of a counter as the reply states it: the price with the digits
\* the prompt gives, the quantity an integer
statedOffer(analysis) == [w |-> Some(analysis.shown.w), q |-> Some(analysis.q)]

\* the counter offer of the call is submitted back as it was stated, as a
\* full offer, by the offer form or in a message
Resubmit ==
    /\ polResult # None
    /\ polPrev = None
    /\ polCountered = None
    /\ polResult[1].tag \in {"CounterPrice", "CounterQuantity"}
    /\ \E handler \in {"handleSendOffer", "handleSendMessage"} :
          /\ handler = "handleSendOffer"
                => handleSendOfferPasses(statedOffer(polResult[1]), polArgs.params)
          /\ polArgs' = [polArgs EXCEPT
                           !.handler = handler,
                           !.chatHistory =
                               polArgs.chatHistory
                                 \o <<Message("ai", Some([w |-> polResult[1].shown.w,
                                                           q |-> polResult[1].q])),
                                      userMessageForHistory(handler, statedOffer(polResult[1]))>>,
                           !.lastUserOffer = statedOffer(polResult[1])]
    /\ polCountered' = polResult
    /\ polResult' = None
    /\ UNCHANGED <<polPrev, svcVars, appVars, bisectionVars>>

NextPolicy == Classify \/ Replay \/ Resubmit

SpecPolicy == InitPolicy /\ [][NextPolicy]_vars

(***************************************************************************)
(* Properties of the scenario analysis, stated of a returned call          *)
(***************************************************************************)
\* the decision of the current call, once it has returned
polDone == polResult # None
polDecision == polResult[1]
polOffer == polArgs.lastUserOffer
polFull == hasValidW(polOffer.w) /\ hasValidQ(polOffer.q)
\* the retailer profit of the full offer of the current call
polRetailerProfit ==
    calculateProfits(polOffer.w[1], RatOfInt(polOffer.q[1]), polArgs.params).retailer_profit
polCarriesNash ==
    /\ polDecision.tag = "RejectAndReinitiate"
    /\ RatEq(polDecision.w, polArgs.nash.wholesale_price)
    /\ polDecision.q = polArgs.nash.order_quantity

\* C1: no Accept, CounterPrice or CounterQuantity decision carries a wholesale
\* price below the production cost c or a quantity <= 0.
C1_NoPriceBelowCostNoQuantityBelowOne ==
    (polDone /\ polDecision.tag \in {"Accept", "CounterPrice", "CounterQuantity"})
        => (RatGe(polDecision.w, RatOfInt(polArgs.params.c)) /\ polDecision.q > 0)

\* C2: the analysis never returns Accept for a full offer whose wholesale
\* price w satisfies 0 < w < c, whether the offer came from the offer form
\* (handleSendOffer) or was read from a free-text message (handleSendMessage).
C2_NoAcceptBelowCost ==
    (polDone /\ polArgs.handler \in {"handleSendOffer", "handleSendMessage"}
             /\ polFull /\ RatLt(polOffer.w[1], RatOfInt(polArgs.params.c)))
        => polDecision.tag # "Accept"

\* C3: a full offer is answered with Accept if and only if its retailer
\* profit is at least the Nash retailer profit (equality included), and the
\* accepted offer carries the user's w and q unchanged.
C3_AcceptIffAtLeastNash ==
    (polDone /\ polFull) =>
        /\ (polDecision.tag = "Accept")
              <=> RatGe(polRetailerProfit, polArgs.nash.retailer_profit)
        /\ (polDecision.tag = "Accept")
              => (RatEq(polDecision.w, polOffer.w[1]) /\ polDecision.q = polOffer.q[1])

C3_Witness ==
    /\ polDone /\ polFull
    /\ RatEq(polRetailerProfit, polArgs.nash.retailer_profit)
    /\ polDecision.tag = "Accept"
    /\ RatEq(polDecision.w, polOffer.w[1]) /\ polDecision.q = polOffer.q[1]

\* C4: a full offer whose retailer profit is below the Nash retailer profit is
\* answered with CounterPrice(q, newW), q the user's quantity and newW the
\* result of findWForTargetRetailerProfit(q, nash.retailer_profit, params),
\* whenever that call returns a price, and with RejectAndReinitiate carrying
\* the Nash offer exactly when it returns none.
C4_CounterPriceOrReject ==
    (polDone /\ polFull /\ RatLt(polRetailerProfit, polArgs.nash.retailer_profit)) =>
        LET newW == findWForTargetRetailerProfit(RatOfInt(polOffer.q[1]),
                                                 polArgs.nash.retailer_profit, polArgs.params)
        IN  IF newW # None
            THEN /\ polDecision.tag = "CounterPrice"
                 /\ polDecision.q = polOffer.q[1]
                 /\ RatEq(polDecision.w, newW[1])
            ELSE polCarriesNash

C4_Witness ==
    /\ polDone /\ polFull
    /\ RatLt(polRetailerProfit, polArgs.nash.retailer_profit)
    /\ polDecision.tag = "CounterPrice"
    /\ polDecision.q = polOffer.q[1]
    /\ ~RatEq(polDecision.w, polArgs.nash.wholesale_price)

\* C5: the price of a CounterPrice that answers a full offer (w, q) is at
\* least the production cost c and strictly below the offered price w.
C5_CounterPriceBetweenCostAndOffer ==
    (polDone /\ polFull /\ polDecision.tag = "CounterPrice") =>
        /\ RatGe(polDecision.w, RatOfInt(polArgs.params.c))
        /\ RatLt(polDecision.w, polOffer.w[1])

\* the example c=3, p=10, demand [0,100], offer w=9, q=70
C5_Witness ==
    /\ polDone
    /\ polArgs.params = INITIAL_PARAMS
    /\ polOffer = [w |-> Some(Rat(900, 100)), q |-> Some(70)]
    /\ polDecision.tag = "CounterPrice"
    /\ RatGe(polDecision.w, RatOfInt(3)) /\ RatLt(polDecision.w, RatOfInt(9))

\* C6: a price-only offer is answered with CounterQuantity(w, newQ), w the
\* user's price and newQ the result of findQForTargetRetailerProfit(w,
\* nash.retailer_profit, params), whenever that call returns a quantity, and
\* with RejectAndReinitiate carrying the Nash offer when it returns none.
C6_CounterQuantityOrReject ==
    (polDone /\ hasValidW(polOffer.w) /\ ~hasValidQ(polOffer.q)) =>
        LET newQ == findQForTargetRetailerProfit(polOffer.w[1],
                                                 polArgs.nash.retailer_profit, polArgs.params)
        IN  IF newQ # None
            THEN /\ polDecision.tag = "CounterQuantity"
                 /\ RatEq(polDecision.w, polOffer.w[1])
                 /\ polDecision.q = newQ[1]
            ELSE polCarriesNash

\* a price-only offer whose target is out of reach, answered with the Nash offer
C6_Witness ==
    /\ polDone /\ hasValidW(polOffer.w) /\ ~hasValidQ(polOffer.q)
    /\ RatLt(polOffer.w[1], RatOfInt(polArgs.params.p))
    /\ polCarriesNash

\* C7: a quantity-only offer is answered with CounterPrice(q, newW), newW the
\* result of findWForTargetRetailerProfit(q, nash.retailer_profit, params),
\* when that call returns a price, and with RejectAndReinitiate carrying the
\* Nash offer when no price w >= c reaches the Nash retailer profit, that is
\* when even w = c leaves the retailer less than the Nash retailer profit.
C7_QuantityOnly ==
    (polDone /\ ~hasValidW(polOffer.w) /\ hasValidQ(polOffer.q)) =>
        LET q == RatOfInt(polOffer.q[1])
            newW == findWForTargetRetailerProfit(q, polArgs.nash.retailer_profit, polArgs.params)
            atCost == calculateProfits(RatOfInt(polArgs.params.c), q, polArgs.params).retailer_profit
        IN  /\ IF newW # None
               THEN /\ polDecision.tag = "CounterPrice"
                    /\ polDecision.q = polOffer.q[1]
                    /\ RatEq(polDecision.w, newW[1])
               ELSE polCarriesNash
            /\ RatLt(atCost, polArgs.nash.retailer_profit) => polCarriesNash

\* the example q = 10 with c=3, p=10, demand [0,100]
C7_Witness ==
    /\ polDone
    /\ polArgs.params = INITIAL_PARAMS
    /\ polOffer = [w |-> None, q |-> Some(10)]
    /\ polCarriesNash

\* C8: an offer with neither a positive w nor a positive q is answered with
\* ConditionalOffer carrying the Nash anchor (w*, q*), the max-price anchor
\* (findWForTargetRetailerProfit(demand_max, ...), demand_max) and the
\* min-quantity anchor (c + 0.01, findQForTargetRetailerProfit(c + 0.01, ...)).
C8_ConditionalOfferAnchors ==
    (polDone /\ ~hasValidW(polOffer.w) /\ ~hasValidQ(polOffer.q)) =>
        LET ps == polArgs.params
            target == polArgs.nash.retailer_profit
            maxW == findWForTargetRetailerProfit(RatOfInt(ps.demand_max), target, ps)
            minQ == findQForTargetRetailerProfit(Rat(100 * ps.c + 1, 100), target, ps)
        IN  /\ polDecision.tag = "ConditionalOffer"
            /\ RatEq(polDecision.w, polArgs.nash.wholesale_price)
            /\ polDecision.q = polArgs.nash.order_quantity
            /\ polDecision.maxPrice.q = ps.demand_max
            /\ (polDecision.maxPrice.w = None) <=> (maxW = None)
            /\ maxW # None => RatEq(polDecision.maxPrice.w[1], maxW[1])
            /\ RatEq(polDecision.minQuantity.w, Rat(100 * ps.c + 1, 100))
            /\ polDecision.minQuantity.q = minQ

C8_Witness ==
    /\ polDone /\ ~hasValidW(polOffer.w) /\ ~hasValidQ(polOffer.q)
    /\ polDecision.tag = "ConditionalOffer"
    /\ polDecision.maxPrice.w # None
    /\ polDecision.minQuantity.q # None

\* C9: a field of the offer that is present but <= 0 is treated as if it were
\* absent, and the scenario is chosen in the order full offer, price-only,
\* quantity-only, no offer.
C9_NonPositiveIsAbsent ==
    polDone =>
        LET positiveW == polOffer.w # None /\ RatGt(polOffer.w[1], Zero)
            positiveQ == polOffer.q # None /\ polOffer.q[1] > 0
            cleaned == [w |-> IF positiveW THEN polOffer.w ELSE None,
                        q |-> IF positiveQ THEN polOffer.q ELSE None]
        IN  /\ polDecision.scenario =
                  (IF positiveW /\ positiveQ THEN 1
                   ELSE IF positiveW THEN 2 ELSE IF positiveQ THEN 3 ELSE 4)
            /\ polDecision = getAiResponse(polArgs.chatHistory, polArgs.params,
                                           polArgs.nash, cleaned)

C9_Witness ==
    /\ polDone
    /\ polOffer.w = Some(Rat(0, 100)) /\ polOffer.q # None /\ polOffer.q[1] > 0
    /\ polDecision.scenario = 3

\* C10: a call with the same params, nash and lastUserOffer as an earlier call
\* returns the same decision, whatever the chat history it is made with.
C10_SameInputsSameDecision ==
    (polDone /\ polPrev # None) => polResult = polPrev

C10_Witness ==
    /\ polDone /\ polPrev # None
    /\ Len(polArgs.chatHistory) > 2
    /\ polResult = polPrev

\* the call submits back the counter offer of the previous call, a counter of
\* the kind tag, and has returned
resubmitted(tag) ==
    /\ polCountered # None
    /\ polCountered[1].tag = tag
    /\ polResult # None

\* the retailer profit of the counter offer of the previous call is at least nash.retailer_profit
counterMeetsTarget ==
    RatGe(calculateProfits(polCountered[1].w, RatOfInt(polCountered[1].q),
                           polArgs.params).retailer_profit,
          polArgs.nash.retailer_profit)

\* C24: when a price-only offer w is answered with CounterQuantity(w, newQ),
\* the full offer (w, newQ) has a retailer profit of at least
\* nash.retailer_profit, and submitting it back as a full offer on the next
\* turn yields Accept.
C24_QuantityCounterIsAccepted ==
    resubmitted("CounterQuantity") =>
        /\ counterMeetsTarget
        /\ polResult[1].tag = "Accept"

\* C25: when an offer with quantity q is answered with CounterPrice(q, newW),
\* the full offer (newW, q) has a retailer profit of at least
\* nash.retailer_profit, and submitting it back on the next turn yields
\* Accept, not another counter.
C25_PriceCounterIsAccepted ==
    resubmitted("CounterPrice") =>
        /\ counterMeetsTarget
        /\ polResult[1].tag = "Accept"

(***************************************************************************)
(* Calls of the service functions.  The prices, quantities and targets are *)
(* JavaScript numbers; the parameters include the ones the App draws, a    *)
(* demand range that starts above zero, an empty range and an inverted one.*)
(***************************************************************************)
ServiceParams ==
    {INITIAL_PARAMS,
     [INITIAL_PARAMS EXCEPT !.p = 11],
     [INITIAL_PARAMS EXCEPT !.c = 5, !.p = 12],
     [INITIAL_PARAMS EXCEPT !.demand_min = 20],
     [INITIAL_PARAMS EXCEPT !.demand_max = 0],
     [INITIAL_PARAMS EXCEPT !.demand_min = 60, !.demand_max = 40]}

ServicePrices == {Rat(-1, 1), Zero, Rat(3, 1), Rat(95, 13), Rat(755, 100), Rat(10, 1), Rat(12, 1)}

ServiceQuantities ==
    {Rat(-5, 1), Zero, Rat(10, 1), Rat(41, 2), Rat(50, 1), Rat(70, 1), Rat(100, 1), Rat(150, 1)}

\* the retailer profit at the price c once expected sales saturate, less 1e-6
nearSaturation(params) ==
    RatSub(RatMul(RatOfInt(params.p - params.c),
                  RatDiv(RatOfInt(params.demand_min + params.demand_max), Two)),
           Rat(1, 1000000))

ServiceTargets(params) ==
    {Rat(-10, 1), Zero, Rat(50, 1), nashBargainingSolution(params).retailer_profit,
     nearSaturation(params)}

\* the arguments of a call of fn
ServiceArgs(fn) ==
    CASE fn = "expectedMinQuantityDemand" ->
             [q : ServiceQuantities, params : ServiceParams]
      [] fn = "calculateProfits" ->
             [w : ServicePrices, q : ServiceQuantities, params : ServiceParams]
      [] fn = "nashBargainingSolution" ->
             [params : ServiceParams]
      [] fn = "findWForTargetRetailerProfit" ->
             UNION {[q : ServiceQuantities, targetProfit : ServiceTargets(ps), params : {ps}] :
                    ps \in ServiceParams}
      [] fn = "findQForTargetRetailerProfit" ->
             UNION {[w : ServicePrices, targetProfit : ServiceTargets(ps), params : {ps}] :
                    ps \in ServiceParams}

ServiceFunctions ==
    {"expectedMinQuantityDemand", "calculateProfits", "nashBargainingSolution",
     "findWForTargetRetailerProfit", "findQForTargetRetailerProfit"}

InitService ==
    /\ \E fn \in ServiceFunctions : \E args \in ServiceArgs(fn) :
          svcCall = [fn |-> fn, args |-> args, result |-> None]
    /\ polIdle
    /\ appIdle
    /\ bisectionIdle

\* the call of fn returns result
svcReturns(fn, result) ==
    /\ svcCall.fn = fn
    /\ svcCall.result = None
    /\ svcCall' = [svcCall EXCEPT !.result = Some(result)]
    /\ UNCHANGED <<polVars, appVars, bisectionVars>>

CallExpectedMinQuantityDemand ==
    svcReturns("expectedMinQuantityDemand",
               expectedMinQuantityDemand(svcCall.args.q, svcCall.args.params))

CallCalculateProfits ==
    svcReturns("calculateProfits",
               calculateProfits(svcCall.args.w, svcCall.args.q, svcCall.args.params))

CallNashBargainingSolution ==
    svcReturns("nashBargainingSolution", nashBargainingSolution(svcCall.args.params))

CallFindWForTargetRetailerProfit ==
    svcReturns("findWForTargetRetailerProfit",
               findWForTargetRetailerProfit(svcCall.args.q, svcCall.args.targetProfit,
                                            svcCall.args.params))

CallFindQForTargetRetailerProfit ==
    svcReturns("findQForTargetRetailerProfit",
               findQForTargetRetailerProfit(svcCall.args.w, svcCall.args.targetProfit,
                                            svcCall.args.params))

NextService ==
    \/ CallExpectedMinQuantityDemand
    \/ CallCalculateProfits
    \/ CallNashBargainingSolution
    \/ CallFindWForTargetRetailerProfit
    \/ CallFindQForTargetRetailerProfit

SpecService == InitService /\ [][NextService]_vars

(***************************************************************************)
(* Properties of the service functions, stated of a returned call          *)
(***************************************************************************)
svcDone(fn) == svcCall # None /\ svcCall.fn = fn /\ svcCall.result # None
svcArgs == svcCall.args
svcResult == svcCall.result[1]

\* 0 <= demand_min < demand_max and 0 < c < p
validParams(params) ==
    /\ 0 <= params.demand_min /\ params.demand_min < params.demand_max
    /\ 0 < params.c /\ params.c < params.p

\* C12: nashBargainingSolution returns q* = (demand_max - demand_min)(p - c)/p
\* rounded to the nearest integer, w* = p(p + 3c)/(2(p + c)) unrounded, and
\* the profits of calculateProfits(w*, q*, params); for c=3, p=10, demand
\* [0,100] that is q* = 70 and w* = 190/26.
C12_NashClosedForms ==
    svcDone("nashBargainingSolution") =>
        LET p == svcArgs.params.p
            c == svcArgs.params.c
            demand_range == svcArgs.params.demand_max - svcArgs.params.demand_min
            \* 2p(q* - q_star_float)
            twice_p_off == 2 * p * svcResult.order_quantity - 2 * demand_range * (p - c)
        IN  /\ -p < twice_p_off /\ twice_p_off <= p
            /\ RatEq(RatMul(svcResult.wholesale_price, RatOfInt(2 * (p + c))),
                     RatOfInt(p * (p + 3 * c)))
            /\ RatEq(svcResult.retailer_profit,
                     RatMul(RatSub(RatOfInt(p), svcResult.wholesale_price),
                            expectedMinQuantityDemand(RatOfInt(svcResult.order_quantity),
                                                      svcArgs.params)))
            /\ RatEq(svcResult.supplier_profit,
                     RatSub(RatMul(svcResult.wholesale_price,
                                   expectedMinQuantityDemand(RatOfInt(svcResult.order_quantity),
                                                             svcArgs.params)),
                            RatOfInt(c * svcResult.order_quantity)))
            /\ RatEq(svcResult.total_profit,
                     RatAdd(svcResult.supplier_profit, svcResult.retailer_profit))
            /\ svcArgs.params = INITIAL_PARAMS
                  => (svcResult.order_quantity = 70
                      /\ RatEq(svcResult.wholesale_price, Rat(190, 26)))

\* a q_star_float that is not an integer: 100 * 8 / 11 is rounded up to 73
C12_Witness ==
    /\ svcDone("nashBargainingSolution")
    /\ svcArgs.params = [INITIAL_PARAMS EXCEPT !.p = 11]
    /\ svcResult.order_quantity = 73
    /\ RatEq(svcResult.wholesale_price, Rat(220, 28))

\* C13: for valid params the supplier_profit and the retailer_profit of the
\* Nash solution are equal.
C13_NashSplitsEvenly ==
    (svcDone("nashBargainingSolution") /\ validParams(svcArgs.params))
        => RatEq(svcResult.supplier_profit, svcResult.retailer_profit)

\* the integer quantities around the demand range
IntegerQuantities(params) == (params.demand_min - 5) .. (params.demand_max + 5)

\* C14: for valid params no integer order quantity q gives a total_profit
\* strictly greater than the total_profit of the Nash solution.
C14_NashQuantityMaximizesTotal ==
    (svcDone("nashBargainingSolution") /\ validParams(svcArgs.params)) =>
        \A q \in IntegerQuantities(svcArgs.params) :
            RatLe(calculateProfits(svcResult.wholesale_price, RatOfInt(q),
                                   svcArgs.params).total_profit,
                  svcResult.total_profit)

\* C15: expected sales are q for q <= demand_min, (demand_min + demand_max)/2
\* for q >= demand_max and [(q^2 - demand_min^2)/2 + q(demand_max - q)] /
\* (demand_max - demand_min) in between, for demand_min <= demand_max; hence
\* retailer_profit = (p - w) * q for q <= demand_min.
C15_ExpectedSalesPiecewise ==
    /\ (svcDone("expectedMinQuantityDemand")
          /\ svcArgs.params.demand_min <= svcArgs.params.demand_max) =>
          LET q == svcArgs.q
              demand_min == RatOfInt(svcArgs.params.demand_min)
              demand_max == RatOfInt(svcArgs.params.demand_max)
              below == RatCmp(q, demand_min) <= 0
              above == RatCmp(q, demand_max) >= 0
          IN  /\ below => RatEq(svcResult, q)
              /\ above => RatEq(RatMul(svcResult, Two), RatAdd(demand_min, demand_max))
              /\ (~below /\ ~above) =>
                    \* 2 (demand_max - demand_min) E = q^2 - demand_min^2 + 2 q (demand_max - q)
                    RatEq(RatMul(RatMul(Two, RatSub(demand_max, demand_min)), svcResult),
                          RatAdd(RatSub(RatMul(q, q), RatMul(demand_min, demand_min)),
                                 RatMul(Two, RatMul(q, RatSub(demand_max, q)))))
    /\ (svcDone("calculateProfits")
          /\ RatLe(svcArgs.q, RatOfInt(svcArgs.params.demand_min))) =>
          RatEq(svcResult.retailer_profit,
                RatMul(RatSub(RatOfInt(svcArgs.params.p), svcArgs.w), svcArgs.q))

\* a quantity strictly inside a demand range that starts above zero
C15_Witness ==
    /\ svcDone("expectedMinQuantityDemand")
    /\ svcArgs.params = [INITIAL_PARAMS EXCEPT !.demand_min = 20]
    /\ RatEq(svcArgs.q, Rat(50, 1))
    /\ RatEq(svcResult, Rat(355, 8))

\* C16: calculateProfits returns supplier_profit = w*E(q) - c*q,
\* retailer_profit = (p - w)*E(q) and total_profit = supplier_profit +
\* retailer_profit exactly; the retailer profit is linear in w for fixed q:
\* retailer_profit(w1, q) - retailer_profit(w2, q) = (w2 - w1) * E(q).
C16_ProfitsAndLinearity ==
    svcDone("calculateProfits") =>
        LET w == svcArgs.w
            q == svcArgs.q
            params == svcArgs.params
        IN  /\ RatEq(RatAdd(svcResult.supplier_profit, RatMul(RatOfInt(params.c), q)),
                     RatMul(w, expectedMinQuantityDemand(q, params)))
            /\ RatEq(svcResult.retailer_profit,
                     RatSub(RatMul(RatOfInt(params.p), expectedMinQuantityDemand(q, params)),
                            RatMul(w, expectedMinQuantityDemand(q, params))))
            /\ RatEq(RatSub(svcResult.total_profit, svcResult.supplier_profit),
                     svcResult.retailer_profit)
            /\ \A w2 \in ServicePrices :
                  RatEq(RatSub(svcResult.retailer_profit,
                               calculateProfits(w2, q, params).retailer_profit),
                        RatMul(RatSub(w2, w), expectedMinQuantityDemand(q, params)))

\* profits that are not integers, one of them negative
C16_Witness ==
    /\ svcDone("calculateProfits")
    /\ svcArgs.params = INITIAL_PARAMS
    /\ RatEq(svcArgs.w, Rat(95, 13)) /\ RatEq(svcArgs.q, Rat(150, 1))
    /\ RatLt(svcResult.supplier_profit, Zero)
    /\ RatEq(svcResult.retailer_profit, Rat(1750, 13))
    /\ RatEq(svcResult.total_profit, Rat(50, 1))

\* C17: findWForTargetRetailerProfit(q, T, params) returns p when T <= 0 and
\* q <= 0, none when T > 0 and q <= 0, none when q > 0 and E(q) <= 0, and
\* otherwise w = p - T/E(q) when that is >= c and none when it is < c; every
\* price it returns is >= c.
C17_FindWCases ==
    svcDone("findWForTargetRetailerProfit") =>
        LET q == svcArgs.q
            T == svcArgs.targetProfit
            p == RatOfInt(svcArgs.params.p)
            c == RatOfInt(svcArgs.params.c)
            E == expectedMinQuantityDemand(q, svcArgs.params)
        IN  /\ IF RatSign(q) <= 0
               THEN IF RatSign(T) <= 0
                    THEN svcResult # None /\ RatEq(svcResult[1], p)
                    ELSE svcResult = None
               ELSE IF RatSign(E) <= 0
                    THEN svcResult = None
                    \* w >= c iff (p - c) E >= T, and then w E = p E - T
                    ELSE IF RatCmp(RatMul(RatSub(p, c), E), T) >= 0
                         THEN /\ svcResult # None
                              /\ RatEq(RatMul(svcResult[1], E), RatSub(RatMul(p, E), T))
                         ELSE svcResult = None
            /\ svcResult # None => RatCmp(svcResult[1], c) >= 0

\* a price strictly between c and p: the Nash price, for the Nash quantity and target
C17_Witness ==
    /\ svcDone("findWForTargetRetailerProfit")
    /\ svcArgs.params = INITIAL_PARAMS
    /\ RatEq(svcArgs.q, Rat(70, 1)) /\ RatEq(svcArgs.targetProfit, Rat(245, 2))
    /\ svcResult # None /\ RatEq(svcResult[1], Rat(95, 13))

\* the tolerance of the round trips
RoundTripTol == Rat(1, 1000000)

\* C18, as the spec states it: whenever findWForTargetRetailerProfit(q, T,
\* params) returns a price w, calculateProfits(w, q, params).retailer_profit
\* equals T within tolerance.
C18_RoundTripWheneverPrice ==
    (svcDone("findWForTargetRetailerProfit") /\ svcResult # None) =>
        RatLt(RatAbs(RatSub(calculateProfits(svcResult[1], svcArgs.q,
                                             svcArgs.params).retailer_profit,
                            svcArgs.targetProfit)),
              RoundTripTol)

\* C18, amended: for q > 0, whenever findWForTargetRetailerProfit(q, T,
\* params) returns a price w, calculateProfits(w, q, params).retailer_profit
\* equals T within tolerance; for q <= 0 the price it returns (p, for a
\* target T <= 0) gives the retailer profit 0, which is at least T and
\* equals T only when T = 0.
C18_RoundTripForPositiveQuantity ==
    (svcDone("findWForTargetRetailerProfit") /\ svcResult # None) =>
        IF RatSign(svcArgs.q) > 0
        THEN RatLt(RatAbs(RatSub(calculateProfits(svcResult[1], svcArgs.q,
                                                  svcArgs.params).retailer_profit,
                                 svcArgs.targetProfit)),
                   RoundTripTol)
        ELSE /\ RatEq(calculateProfits(svcResult[1], svcArgs.q,
                                       svcArgs.params).retailer_profit, Zero)
             /\ RatLe(svcArgs.targetProfit, Zero)

\* a target below the Nash retailer profit, reached at a price above the Nash price
C18_Witness ==
    /\ svcDone("findWForTargetRetailerProfit")
    /\ svcArgs.params = INITIAL_PARAMS
    /\ RatEq(svcArgs.q, Rat(70, 1)) /\ RatEq(svcArgs.targetProfit, Rat(50, 1))
    /\ svcResult # None
    /\ RatGt(svcResult[1], Rat(95, 13))
    /\ RatEq(calculateProfits(svcResult[1], svcArgs.q, svcArgs.params).retailer_profit,
             Rat(50, 1))

\* g(q) = retailer_profit(w, q) - T, the function findQForTargetRetailerProfit bisects
svcG(q) ==
    RatSub(calculateProfits(svcArgs.w, q, svcArgs.params).retailer_profit,
           svcArgs.targetProfit)

\* how far from the returned integer, beyond 1/2, the root may lie
RootSlack == Rat(1, 10000)

\* C19: findQForTargetRetailerProfit(w, T, params) returns 0 when w >= p and
\* T <= 0 and none when w >= p and T > 0; when w < p it returns none exactly
\* when g(q) = retailer_profit(w, q) - T has no strict sign change between
\* the endpoints 1e-6 and 2*demand_max, and otherwise the bisection root
\* rounded to the nearest integer: an integer within 1/2 of a root of g, or
\* of a quantity where g is within the tolerance of zero.
C19_FindQCases ==
    svcDone("findQForTargetRetailerProfit") =>
        IF RatCmp(svcArgs.w, RatOfInt(svcArgs.params.p)) >= 0
        THEN IF RatSign(svcArgs.targetProfit) <= 0
             THEN svcResult = Some(0)
             ELSE svcResult = None
        ELSE /\ (svcResult = None)
                   <=> (RatSign(svcG(Rat(1, 1000000)))
                          * RatSign(svcG(RatOfInt(2 * svcArgs.params.demand_max))) >= 0)
             /\ svcResult # None =>
                   \/ RatSign(svcG(RatSub(RatOfInt(svcResult[1]), RatAdd(Rat(1, 2), RootSlack))))
                        * RatSign(svcG(RatAdd(RatOfInt(svcResult[1]), RatAdd(Rat(1, 2), RootSlack))))
                        <= 0
                   \/ \E d \in {Rat(-1, 2), Zero, Rat(1, 2)} :
                         RatLt(RatAbs(svcG(RatAdd(RatOfInt(svcResult[1]), d))), DefaultTol)

\* a root strictly between two integer quantities next to the returned one
C19_Witness ==
    /\ svcDone("findQForTargetRetailerProfit")
    /\ svcArgs.params = INITIAL_PARAMS
    /\ RatEq(svcArgs.w, Rat(95, 13)) /\ RatEq(svcArgs.targetProfit, Rat(50, 1))
    /\ svcResult # None
    /\ RatSign(svcG(RatOfInt(svcResult[1] - 1))) < 0
    /\ RatSign(svcG(RatOfInt(svcResult[1] + 1))) > 0

\* C20: calculateProfits returns numbers for any w, any q (zero or negative
\* included) and any demand range, the empty and the inverted range
\* included: it never divides by zero.
C20_ProfitsAlwaysNumbers ==
    svcDone("calculateProfits") =>
        /\ RatIsNumber(svcResult.supplier_profit)
        /\ RatIsNumber(svcResult.retailer_profit)
        /\ RatIsNumber(svcResult.total_profit)

\* a quantity above an empty demand range [0, 0]
C20_Witness ==
    /\ svcDone("calculateProfits")
    /\ svcArgs.params.demand_min >= svcArgs.params.demand_max
    /\ RatGt(svcArgs.q, RatOfInt(svcArgs.params.demand_max))
    /\ RatGt(svcArgs.q, RatOfInt(svcArgs.params.demand_min))
    /\ RatIsNumber(svcResult.total_profit)
    /\ RatEq(svcResult.retailer_profit, Zero)

\* the call findWForTargetRetailerProfit(q, targetProfit, params) derives a price w < c
derivesPriceBelowCost(args) ==
    /\ RatSign(args.q) > 0
    /\ RatSign(expectedMinQuantityDemand(args.q, args.params)) > 0
    /\ RatLt(RatMul(RatOfInt(args.params.p - args.params.c),
                    expectedMinQuantityDemand(args.q, args.params)),
             args.targetProfit)

\* the returned call of findQForTargetRetailerProfit found no root: w < p and
\* no strict sign change between the endpoints
foundNoRoot ==
    /\ svcDone("findQForTargetRetailerProfit")
    /\ RatLt(svcArgs.w, RatOfInt(svcArgs.params.p))
    /\ RatSign(svcG(Rat(1, 1000000)))
         * RatSign(svcG(RatOfInt(2 * svcArgs.params.demand_max))) >= 0

\* C23: "no root found" in findQForTargetRetailerProfit and "price below cost"
\* in findWForTargetRetailerProfit are reported as distinct results: the
\* value returned for the one differs from the value returned for the other.
C23_OutcomesToldApart ==
    foundNoRoot =>
        \A args \in ServiceArgs("findWForTargetRetailerProfit") :
            derivesPriceBelowCost(args) =>
                findWForTargetRetailerProfit(args.q, args.targetProfit, args.params)
                    # svcResult

\* C29: for valid params, every w < p and every target, the quantity
\* findQForTargetRetailerProfit returns is at most demand_max, although the
\* interval searched extends to 2 * demand_max.
C29_QuantityWithinDemand ==
    (/\ svcDone("findQForTargetRetailerProfit")
     /\ validParams(svcArgs.params)
     /\ RatLt(svcArgs.w, RatOfInt(svcArgs.params.p))
     /\ svcResult # None)
        => svcResult[1] <= svcArgs.params.demand_max

\* a target within 1e-6 of the profit at saturation: the first midpoint,
\* just above demand_max, is returned and rounds to demand_max
C29_Witness ==
    /\ svcDone("findQForTargetRetailerProfit")
    /\ validParams(svcArgs.params)
    /\ RatEq(svcArgs.w, RatOfInt(svcArgs.params.c))
    /\ RatEq(svcArgs.targetProfit, nearSaturation(svcArgs.params))
    /\ svcResult = Some(svcArgs.params.demand_max)

(***************************************************************************)
(* Calls of nashBargainingSolution over a grid of costs and prices, the    *)
(* pairs with c = 0 and with c >= p included.                              *)
(***************************************************************************)
MaxNashPrice == 12

NashParams ==
    {[INITIAL_PARAMS EXCEPT !.c = c, !.p = p] : c \in 0..MaxNashPrice, p \in 1..MaxNashPrice}

InitNash ==
    /\ \E params \in NashParams :
          svcCall = [fn |-> "nashBargainingSolution", args |-> [params |-> params],
                     result |-> None]
    /\ polIdle
    /\ appIdle
    /\ bisectionIdle

SpecNash == InitNash /\ [][CallNashBargainingSolution]_vars

\* C30: for params with 0 < c < p the wholesale price of the Nash solution
\* lies strictly between the cost and the retail price: c < w* < p.
C30_NashPriceBetweenCostAndPrice ==
    (/\ svcDone("nashBargainingSolution")
     /\ 0 < svcArgs.params.c
     /\ svcArgs.params.c < svcArgs.params.p)
        => /\ RatLt(RatOfInt(svcArgs.params.c), svcResult.wholesale_price)
           /\ RatLt(svcResult.wholesale_price, RatOfInt(svcArgs.params.p))

\* the cost one below the price: w* = 12 * 45 / 46, between 11 and 12
C30_Witness ==
    /\ svcDone("nashBargainingSolution")
    /\ svcArgs.params.c = 11 /\ svcArgs.params.p = 12
    /\ RatEq(svcResult.wholesale_price, Rat(270, 23))

(***************************************************************************)
(* App.tsx: the App component.  A handler runs to its first await in one   *)
(* step; each await of processAiResponse ends in a step of its own, so the *)
(* handlers of the user interleave with a request in flight wherever their *)
(* guards and the disabled buttons allow it.  State updates of a handler   *)
(* are rendered, and the effects of the render run, before the next        *)
(* handler.                                                                *)
(***************************************************************************)
\* user turns of one session, calls of handleReset
MaxTurns == 2
MaxResets == 1

\* what the offer form can hold when "Send Offer" is clicked: a valid offer,
\* a price below every cost, an empty price field
FormOffers ==
    {[w |-> Some(Rat(900, 100)), q |-> Some(70)],
     [w |-> Some(Rat(100, 100)), q |-> Some(70)],
     [w |-> None, q |-> Some(70)]}

\* what parseOfferWithLLM can return for a text: {}, a price, a price and a quantity
ParsedOffers ==
    {[w |-> None, q |-> None],
     [w |-> Some(Rat(755, 100)), q |-> None],
     [w |-> Some(Rat(755, 100)), q |-> Some(70)]}

\* the offer of the last message that carries one, whoever sent it
latestAiOffer_AnySender(msgs) ==
    LET carrying == {i \in 1..Len(msgs) : msgs[i].offer # None}
    IN  IF carrying = {} THEN None
        ELSE msgs[CHOOSE i \in carrying : \A j \in carrying : j <= i].offer

\* the offer of the last message of the AI that carries one, or null
latestAiOffer(msgs) ==
    LET carrying == {i \in 1..Len(msgs) : msgs[i].sender = "ai" /\ msgs[i].offer # None}
    IN  IF carrying = {} THEN None
        ELSE msgs[CHOOSE i \in carrying : \A j \in carrying : j <= i].offer

\* the offer of the last message that carries one, or null
latestOffer(msgs) ==
    LET carrying == {i \in 1..Len(msgs) : msgs[i].offer # None}
    IN  IF carrying = {} THEN None
        ELSE msgs[CHOOSE i \in carrying : \A j \in carrying : j <= i].offer

\* nashSolution.current when no effect assigns it
nashSolutionEffect_Stale(params, current) == current

\* nashSolution.current after the render of params: the effect on
\* [negotiationParams] assigns it
nashSolutionEffect(params, current) == nashBargainingSolution(params)

\* the state after construction: the useState initializers and the useRef
InitApp ==
    /\ messages = << >>
    /\ isLoading = TRUE
    /\ isConcluded = FALSE
    /\ negotiationParams \in generateNewParams
    /\ nashSolution = nashBargainingSolution(negotiationParams)
    /\ request = None
    /\ calls = << >>
    /\ resets = 0
    /\ polIdle
    /\ svcIdle
    /\ bisectionIdle

\* the effects of the first render: the greeting, and the effect on [negotiationParams]
MountEffects ==
    /\ messages = << >>
    /\ messages' = <<firstMessage>>
    /\ isLoading' = FALSE
    /\ nashSolution' = nashSolutionEffect(negotiationParams, nashSolution)
    /\ UNCHANGED <<isConcluded, negotiationParams, request, calls, resets, polVars, svcVars, bisectionVars>>

\* a send that returns early only once the negotiation is concluded
sendRefused_WhenConcluded == isConcluded

\* the early return of handleSendMessage and handleSendOffer on the state of
\* the render, which also disables the fields and the buttons of a send
sendRefused == isLoading \/ isConcluded

\* a finally block that leaves isLoading as it is
processAiResponseFinally_Skipped == isLoading' = isLoading

\* the finally block of processAiResponse
processAiResponseFinally == isLoading' = FALSE

\* processAiResponse(chatHistory) up to its first await
processAiResponse(chatHistory) ==
    /\ isLoading' = TRUE
    /\ request' = Some([pc |-> "parseUserOffer",
                        chatHistory |-> chatHistory,
                        negotiationParams |-> negotiationParams])

\* handleSendMessage, with a text in the input field; the send button is
\* disabled while loading or concluded
handleSendMessage ==
    /\ ~sendRefused
    /\ Len(messages) < 2 * MaxTurns
    /\ messages' = Append(messages, Message("user", None))
    /\ processAiResponse(Append(messages, userMessageForHistory("handleSendMessage", None)))
    /\ UNCHANGED <<isConcluded, negotiationParams, nashSolution, calls, resets, polVars, svcVars, bisectionVars>>

\* handleSendOffer, with the offer form holding o
handleSendOffer ==
    /\ Len(messages) < 2 * MaxTurns
    /\ \E o \in FormOffers :
          /\ handleSendOfferPasses(o, negotiationParams)
          /\ ~sendRefused
          /\ messages' = Append(messages, Message("user", Some([w |-> o.w[1], q |-> o.q[1]])))
          /\ processAiResponse(Append(messages, userMessageForHistory("handleSendOffer", o)))
    /\ UNCHANGED <<isConcluded, negotiationParams, nashSolution, calls, resets, polVars, svcVars, bisectionVars>>

\* processAiResponse after the first await: parseOfferWithLLM has returned
\* (it returns {} when its request fails) and getAiResponse is called with
\* the negotiationParams of the render and nashSolution.current
CallGetAiResponse ==
    /\ request # None
    /\ request[1].pc = "parseUserOffer"
    /\ calls' = Append(calls, [params |-> request[1].negotiationParams,
                               nash |-> nashSolution])
    /\ request' = Some([request[1] EXCEPT !.pc = "getAiResponse"])
    /\ UNCHANGED <<messages, isLoading, isConcluded, negotiationParams, nashSolution, resets,
                   polVars, svcVars, bisectionVars>>

\* processAiResponse after the second await: getAiResponse has returned a
\* text (its own when its request fails) and parseOfferWithLLM reads it
ParseAiResponseText ==
    /\ request # None
    /\ request[1].pc = "getAiResponse"
    /\ request' = Some([request[1] EXCEPT !.pc = "parseAiOffer"])
    /\ UNCHANGED <<messages, isLoading, isConcluded, negotiationParams, nashSolution, calls,
                   resets, polVars, svcVars, bisectionVars>>

\* processAiResponse after the third await: the message of the AI is added
\* with the offer read from it when that is a full one, then the finally block
AddAiMessage ==
    /\ request # None
    /\ request[1].pc = "parseAiOffer"
    /\ \E aiParsedOffer \in ParsedOffers :
          LET aiFullOffer == IF aiParsedOffer.w # None /\ aiParsedOffer.q # None
                             THEN Some([w |-> aiParsedOffer.w[1], q |-> aiParsedOffer.q[1]])
                             ELSE None
          IN  messages' = Append(messages, Message("ai", aiFullOffer))
    /\ processAiResponseFinally
    /\ request' = None
    /\ UNCHANGED <<isConcluded, negotiationParams, nashSolution, calls, resets, polVars, svcVars, bisectionVars>>

\* handleAcceptOffer; the Accept button is shown for the latest offer of the
\* AI and disabled while loading
handleAcceptOffer ==
    /\ ~isLoading
    /\ latestAiOffer(messages) # None /\ ~isConcluded
    /\ messages' = Append(messages, Message("user", latestAiOffer(messages)))
    /\ isConcluded' = TRUE
    /\ UNCHANGED <<isLoading, negotiationParams, nashSolution, request, calls, resets,
                   polVars, svcVars, bisectionVars>>

\* handleReset, the button of the summary shown once the negotiation is
\* concluded, with the render and the effect on [negotiationParams] that follow
handleReset ==
    /\ isConcluded /\ latestOffer(messages) # None
    /\ resets < MaxResets
    /\ \E newParams \in generateNewParams :
          /\ negotiationParams' = newParams
          /\ nashSolution' = nashSolutionEffect(newParams, nashSolution)
    /\ messages' = <<firstMessage>>
    /\ isLoading' = FALSE
    /\ isConcluded' = FALSE
    /\ calls' = << >>
    /\ resets' = resets + 1
    /\ UNCHANGED <<request, polVars, svcVars, bisectionVars>>

NextApp ==
    \/ MountEffects
    \/ handleSendMessage
    \/ handleSendOffer
    \/ CallGetAiResponse
    \/ ParseAiResponseText
    \/ AddAiMessage
    \/ handleAcceptOffer
    \/ handleReset

SpecApp == InitApp /\ [][NextApp]_vars

\* two Nash solutions with the same numbers
sameNash(a, b) ==
    /\ a.order_quantity = b.order_quantity
    /\ RatEq(a.wholesale_price, b.wholesale_price)
    /\ RatEq(a.retailer_profit, b.retailer_profit)
    /\ RatEq(a.supplier_profit, b.supplier_profit)
    /\ RatEq(a.total_profit, b.total_profit)

\* C11: in every session, the first turn after a reset included, the nash
\* passed to a getAiResponse call is nashBargainingSolution of the params
\* passed to the same call, and every call of the session is passed the same
\* nash.
C11_NashOfTheSessionParams ==
    \A i \in 1..Len(calls) :
        /\ sameNash(calls[i].nash, nashBargainingSolution(calls[i].params))
        /\ \A j \in 1..Len(calls) : sameNash(calls[i].nash, calls[j].nash)

\* the second call of the session after a reset, with parameters other than the initial ones
C11_Witness ==
    /\ resets = 1
    /\ Len(calls) = 2
    /\ negotiationParams = [INITIAL_PARAMS EXCEPT !.c = 5, !.p = 12]
    /\ calls[2].params = negotiationParams
    /\ calls[2].nash.order_quantity = 58

\* a step that appends a message of the given sender
appendsMessageOf(sender) ==
    /\ Len(messages') = Len(messages) + 1
    /\ SubSeq(messages', 1, Len(messages)) = messages
    /\ messages'[Len(messages')].sender = sender

\* C26: at most one processAiResponse is in flight: while a request is
\* outstanding the app is loading, and no step, of handleSendMessage or
\* handleSendOffer in particular, adds a message of the user or starts a
\* second request.
C26_OneRequestInFlight ==
    /\ [](request # None => isLoading)
    /\ [][request # None =>
              /\ ~(request' # request /\ request' # None
                     /\ request'[1].pc = "parseUserOffer")
              /\ ~appendsMessageOf("user")]_vars

\* the request of the second turn is waiting for getAiResponse
C26_Witness ==
    /\ request # None
    /\ request[1].pc = "getAiResponse"
    /\ Len(request[1].chatHistory) = 2 * MaxTurns
    /\ isLoading

\* the awaits of processAiResponse settle: each collaborator call returns
FairSpecApp ==
    /\ SpecApp
    /\ WF_vars(CallGetAiResponse)
    /\ WF_vars(ParseAiResponseText)
    /\ WF_vars(AddAiMessage)

\* a message of the user is the last one only while its request is
\* outstanding or as the acceptance that concludes; any other is followed by
\* one message of the AI and then, if by anything, by a message of the user
everyUserMessageAnswered ==
    \A i \in 1..Len(messages) :
        messages[i].sender = "user" =>
            IF i = Len(messages)
            THEN request # None \/ isConcluded
            ELSE /\ messages[i + 1].sender = "ai"
                 /\ i + 2 <= Len(messages) => messages[i + 2].sender = "user"

\* C27: every message of the user admitted by handleSendMessage or
\* handleSendOffer is eventually followed by exactly one message of the AI,
\* and isLoading eventually returns to false, whatever the collaborators return.
C27_EveryMessageIsAnswered ==
    /\ []everyUserMessageAnswered
    /\ request # None ~> (/\ request = None
                          /\ ~isLoading
                          /\ messages[Len(messages)].sender = "ai")

\* the second turn is answered, by a reply the offer reader finds no offer in
C27_Witness ==
    /\ request = None /\ ~isLoading
    /\ Len(messages) = 2 * MaxTurns + 1
    /\ messages[2 * MaxTurns].sender = "user"
    /\ messages[2 * MaxTurns + 1] = Message("ai", None)

\* the offer the user accepts when the step concludes: the offer of the last
\* message of the AI carrying one, appended as a message of the user
acceptsAiOffer ==
    \E i \in 1..Len(messages) :
        /\ messages[i].sender = "ai" /\ messages[i].offer # None
        /\ \A j \in (i + 1)..Len(messages) :
              ~(messages[j].sender = "ai" /\ messages[j].offer # None)
        /\ messages' = Append(messages, Message("user", messages[i].offer))

\* the final terms of a concluded negotiation: the offer of the acceptance,
\* which is the last message
finalTermsAreTheAccepted ==
    isConcluded =>
        /\ request = None
        /\ messages # << >>
        /\ messages[Len(messages)].sender = "user"
        /\ latestOffer(messages) = messages[Len(messages)].offer
        /\ \E i \in 1..(Len(messages) - 1) :
              /\ messages[i].sender = "ai"
              /\ messages[i].offer = latestOffer(messages)

\* C28: a negotiation is concluded only by accepting an existing full offer
\* of the AI; while isConcluded no message is appended and no request is
\* started (until handleReset); the final terms, the latest message carrying
\* an offer, are the offer of the AI that was accepted.
C28_ConcludedByAcceptingAiOffer ==
    /\ []finalTermsAreTheAccepted
    /\ [][/\ ~isConcluded /\ isConcluded' => acceptsAiOffer
          /\ isConcluded /\ isConcluded' => messages' = messages /\ request' = request]_vars

\* concluded on the offer of the AI after the user had proposed another one
C28_Witness ==
    /\ isConcluded
    /\ Len(messages) = 4
    /\ messages[2].sender = "user" /\ messages[2].offer # None
    /\ messages[3].sender = "ai"
    /\ messages[4].offer = messages[3].offer
    /\ messages[4].offer # messages[2].offer

(***************************************************************************)
(* negotiationService.ts: a call of bisection, one pass of its loop at a   *)
(* time.  The functions are closures of findQForTargetRetailerProfit; the  *)
(* intervals include the one it searches, one with a root at an endpoint   *)
(* and one without a root; tol and max_iter include the defaults and       *)
(* values for which the loop runs out of passes.                           *)
(***************************************************************************)
BisectionFunctions ==
    {profitDifference(Rat(95, 13), Rat(50, 1), INITIAL_PARAMS),
     profitDifference(Rat(95, 13), Rat(245, 2), INITIAL_PARAMS),
     profitDifference(Rat(95, 13), Zero, INITIAL_PARAMS),
     profitDifference(Rat(3, 1), Rat(50, 1), INITIAL_PARAMS),
     profitDifference(Rat(3, 1), Rat(100, 1), INITIAL_PARAMS),
     profitDifference(Zero, Rat(50, 1), INITIAL_PARAMS),
     profitDifference(Rat(3, 1), Rat(1000, 1), INITIAL_PARAMS)}

BisectionIntervals ==
    {[a |-> Rat(1, 1000000), b |-> Rat(200, 1)],
     [a |-> Zero, b |-> Rat(100, 1)],
     [a |-> Rat(70, 1), b |-> Rat(200, 1)],
     [a |-> Zero, b |-> Rat(3, 1)]}

BisectionTols == {DefaultTol, Rat(1, 2)}

BisectionMaxIters == {0, 3, DefaultMaxIter}

InitBisection ==
    /\ \E func \in BisectionFunctions, ab \in BisectionIntervals,
          tol \in BisectionTols, max_iter \in BisectionMaxIters :
          bisArgs = [func |-> func, context |-> NoContext, a |-> ab.a, b |-> ab.b,
                     tol |-> tol, max_iter |-> max_iter]
    /\ bisV = None
    /\ bisI = 0
    /\ bisReturn = None
    /\ polIdle
    /\ svcIdle
    /\ appIdle

\* the first if statement: return null
BisectionReturnNull ==
    /\ bisReturn = None /\ bisV = None
    /\ bisectionRejects(apply(bisArgs.func, bisArgs.a, bisArgs.context),
                        apply(bisArgs.func, bisArgs.b, bisArgs.context))
    /\ bisReturn' = Some(None)
    /\ UNCHANGED <<bisArgs, bisV, bisI, polVars, svcVars, appVars>>

\* the first if statement passed: let c = a, and the loop starts with i = 0
BisectionEnterLoop ==
    /\ bisReturn = None /\ bisV = None
    /\ ~bisectionRejects(apply(bisArgs.func, bisArgs.a, bisArgs.context),
                         apply(bisArgs.func, bisArgs.b, bisArgs.context))
    /\ bisV' = Some(bisectionEnter(bisArgs.func, bisArgs.context, bisArgs.a, bisArgs.b))
    /\ UNCHANGED <<bisArgs, bisI, bisReturn, polVars, svcVars, appVars>>

\* the new variables after one pass of the loop, and c when the pass returned it
bisectionAfterPass(v) ==
    /\ bisV' = Some(v)
    /\ bisReturn' = IF v.returned THEN Some(Some(v.c)) ELSE None

\* one pass of the loop while i < max_iter
BisectionLoopPass ==
    /\ bisReturn = None /\ bisV # None
    /\ bisI < bisArgs.max_iter
    /\ bisectionAfterPass(bisectionPass(bisArgs.func, bisArgs.context, bisArgs.tol, bisV[1]))
    /\ bisI' = bisI + 1
    /\ UNCHANGED <<bisArgs, polVars, svcVars, appVars>>

\* the loop ends with i = max_iter: return c
BisectionReturnLast ==
    /\ bisReturn = None /\ bisV # None
    /\ ~(bisI < bisArgs.max_iter)
    /\ bisReturn' = Some(Some(bisV[1].c))
    /\ UNCHANGED <<bisArgs, bisV, bisI, polVars, svcVars, appVars>>

NextBisection ==
    \/ BisectionReturnNull
    \/ BisectionEnterLoop
    \/ BisectionLoopPass
    \/ BisectionReturnLast

SpecBisection == InitBisection /\ [][NextBisection]_vars

\* the sign condition f(a) * f(b) < 0 of the call
bisSignCondition ==
    RatSign(apply(bisArgs.func, bisArgs.a, bisArgs.context))
      * RatSign(apply(bisArgs.func, bisArgs.b, bisArgs.context)) < 0

\* what a call that has returned has returned: null exactly when the sign
\* condition fails, otherwise a number after at most max_iter passes, which
\* is the last midpoint (the end of the bracket the last pass moved) when
\* no pass returned
bisReturnsAsClaimed ==
    /\ bisI <= bisArgs.max_iter
    /\ bisReturn # None =>
          /\ (bisReturn[1] = None) <=> ~bisSignCondition
          /\ bisReturn[1] # None =>
                /\ RatIsNumber(bisReturn[1][1])
                /\ ~bisV[1].returned =>
                      /\ bisI = bisArgs.max_iter
                      /\ bisI > 0 => /\ RatEq(bisReturn[1][1], bisV[1].c)
                                     /\ \/ RatEq(bisV[1].c, bisV[1].a)
                                        \/ RatEq(bisV[1].c, bisV[1].b)
                      /\ bisI = 0 => RatEq(bisReturn[1][1], bisArgs.a)

\* a step of a call brings it nearer to its return: it returns, or enters
\* the loop, or makes one more of the max_iter passes
bisStepAdvances ==
    \/ bisReturn = None /\ bisReturn' # None
    \/ bisV = None /\ bisV' # None /\ bisI' = bisI
    \/ bisV # None /\ bisI' = bisI + 1 /\ bisI' <= bisArgs.max_iter

\* C21: bisection returns null exactly when the sign condition f(a) * f(b) < 0
\* fails (a zero at an endpoint included); when it holds the call ends after
\* at most max_iter passes and returns a number, the last midpoint when the
\* loop runs out of passes.
C21_BisectionReturns == []bisReturnsAsClaimed /\ [][bisStepAdvances]_vars

\* the loop ran out of its 3 passes and the last midpoint was returned
C21_Witness ==
    /\ bisReturn # None /\ bisReturn[1] # None
    /\ bisArgs.max_iter = 3 /\ bisI = 3
    /\ ~bisV[1].returned
    /\ RatEq(bisArgs.a, Zero) /\ RatEq(bisArgs.b, Rat(100, 1))
    /\ RatEq(bisReturn[1][1], Rat(125, 10))

\* a pass of the loop returned its midpoint
bisReturnedEarly == bisReturn # None /\ bisReturn[1] # None /\ bisV[1].returned

\* C22, as the spec states it: a midpoint returned by a pass of the loop
\* satisfies |f(mid)| < tol or was taken from a bracket [a, b] with
\* b - a < tol.
C22_StopsOnWidthBelowTol ==
    bisReturnedEarly =>
        \/ RatLt(RatAbs(apply(bisArgs.func, bisReturn[1][1], bisArgs.context)), bisArgs.tol)
        \/ RatLt(RatSub(bisV[1].b, bisV[1].a), bisArgs.tol)

\* C22, amended: a midpoint returned by a pass of the loop satisfies
\* |f(mid)| < tol or was taken from a bracket [a, b] with (b - a) / 2 < tol,
\* that is b - a < 2 * tol; no pass returns on a wider bracket.
C22_StopsOnHalfWidthBelowTol ==
    bisReturnedEarly =>
        \/ RatLt(RatAbs(apply(bisArgs.func, bisReturn[1][1], bisArgs.context)), bisArgs.tol)
        \/ RatLt(RatSub(bisV[1].b, bisV[1].a), RatMul(Two, bisArgs.tol))

\* the search of findQForTargetRetailerProfit(3, 100, params): a pass returned
\* on a bracket of a width between tol and 2 * tol with |f(mid)| >= tol
C22_Witness ==
    /\ bisReturnedEarly
    /\ bisArgs.func = profitDifference(Rat(3, 1), Rat(100, 1), INITIAL_PARAMS)
    /\ bisArgs.a = Rat(1, 1000000) /\ bisArgs.b = Rat(200, 1)
    /\ bisArgs.tol = DefaultTol /\ bisArgs.max_iter = DefaultMaxIter
    /\ ~RatLt(RatAbs(apply(bisArgs.func, bisReturn[1][1], bisArgs.context)), bisArgs.tol)
    /\ RatGe(RatSub(bisV[1].b, bisV[1].a), bisArgs.tol)
    /\ RatLt(RatSub(bisV[1].b, bisV[1].a), RatMul(Two, bisArgs.tol))

====
